---- MODULE Spec2Model ----
(***************************************************************************)
(* Capacity accounting, booking lifecycle, event cancellation cascade and  *)
(* cursor pagination of the event-manager server.                          *)
(*                                                                         *)
(* The persistent store is the pair (events, bookings).  Every request     *)
(* handler is a little process held in a slot of `reqs`: each of its       *)
(* awaited store round trips is one atomic step, so that two handlers      *)
(* interleave exactly where the Node event loop lets them.  A request      *)
(* arrives with its first round trip.                                      *)
(***************************************************************************)
EXTENDS Integers, Sequences, FiniteSets, TLC

\* ---------------------------------------------------------------- bounds
NumEvents == 2
NumUsers == 2
MaxTotal == 2
MaxQty == 2
MaxNow == 3
MaxInFlight == 2
MaxBookings == 2

\* One clock tick is twelve hours: two ticks make a calendar day.
HoursPerTick == 12
TicksPerDay == 2
CancellationWindowHours == 24

EventIds == 1..NumEvents
UserIds == 1..NumUsers
\* Ids outside UserIds: the organizer owning every event, another organizer,
\* and the administrator.
OrganizerId == NumUsers + 1
OtherOrganizerId == NumUsers + 2
AdminId == 0
Slots == 1..MaxInFlight

VARIABLES
    events,     \* Event collection: EventIds -> event document
    bookings,   \* Booking collection: a set of booking documents
    reqs,       \* request handlers in flight: Slots -> handler state
    now,        \* the server clock, in ticks
    catalog,    \* pagination: the listed events, [id, start] records
    query,      \* pagination: the [limit, sort] of the traversal
    cursor,     \* pagination: the nextCursor the client holds (NoCursor at start)
    seen,       \* pagination: the ids returned so far, in order
    more,       \* pagination: hasNextPage of the last page fetched
    answer      \* pagination: the last listing request and its answer

vars == <<events, bookings, reqs, now, catalog, query, cursor, seen, more, answer>>
storeVars == <<events, bookings>>
pageVars == <<catalog, query, cursor, seen, more, answer>>

\* ------------------------------------------------------------ Booking model
ActiveStatuses == {"pending", "confirmed"}
BookingStatuses == {"pending", "confirmed", "cancelled", "waitlisted"}
NoDate == -1

\* A booking's _id: the model names a row by its event, its user and its
\* ordinal among the rows of that pair.
Id(b) == <<b.eventId, b.userId, b.n>>
MissingId == <<0, 0, 0>>
BookingIds == {Id(b) : b \in bookings}
Row(bks, id) == CHOOSE b \in bks : Id(b) = id
Stored(bks, id) == \E b \in bks : Id(b) = id

\* Writing fields of the row `id`: an update of one document by _id.
SetRow(bks, id, new) == (bks \ {Row(bks, id)}) \cup {new}

RECURSIVE SumQuantity(_)
SumQuantity(S) ==
    IF S = {} THEN 0
    ELSE LET b == CHOOSE x \in S : TRUE
         IN b.quantity + SumQuantity(S \ {b})

ActiveBookings(bks, e) ==
    {b \in bks : b.eventId = e /\ b.status \in ActiveStatuses}

\* The $match / $group aggregate of updateAvailableCapacity.
BookedQuantity(bks, e) == SumQuantity(ActiveBookings(bks, e))

\* Booking.checkDuplicateBooking
checkDuplicateBooking(bks, e, u) ==
    \E b \in bks : b.eventId = e /\ b.userId = u /\ b.status \in ActiveStatuses

\* A mutant of the unique index: no index at all.
UniqueIndexAbsent(bks, e, u) == FALSE

\* The unique index {eventId: 1, userId: 1}: it covers every row, whatever its status.
UniqueIndexViolated(bks, e, u) ==
    \E b \in bks : b.eventId = e /\ b.userId = u

canBeCancelled(b) == b.status = "confirmed" \/ b.status = "pending"

\* ------------------------------------------------------------- Event model
\* Event.isBookable
isBookable(ev, t) ==
    ev.status = "published" /\ ev.start > t /\ ev.available > 0

\* The pre('save') capacity validation of the Event schema.
EventSaveValid(reserved, total, available) ==
    ~(reserved > total) /\ ~(available < 0)

\* A mutant of the recompute: the reserved allocation is forgotten.
RecomputeIgnoringReserved(total, reserved, booked) == total - booked

\* The arithmetic of updateAvailableCapacity.
RecomputeAvailable(total, reserved, booked) == total - reserved - booked

\* ---------------------------------------------------------- handler state
NoSnap ==
    [status |-> "none", total |-> 0, reserved |-> 0, available |-> 0,
     requiresApproval |-> FALSE]

\* op, pc: the route and the place in it.  caller, role: req.user.  ev, bk,
\* qty, att, status, hasCap, total, reserved: the request's parameters and body.
\* snap, booked: the event document and the aggregate held in memory.
\* avail0: the event's available when the request arrived (kept for the
\* properties only).  code: the response.
Idle ==
    [op |-> "idle", pc |-> "idle", caller |-> AdminId, role |-> "none",
     ev |-> 0, bk |-> MissingId, qty |-> 0, att |-> 0, status |-> "none",
     hasCap |-> FALSE, total |-> 0, reserved |-> 0,
     snap |-> NoSnap, booked |-> 0, avail0 |-> 0, code |-> "none"]

\* The fields of an event document a handler keeps in memory.
Snapshot(ev) ==
    [status |-> ev.status, total |-> ev.total, reserved |-> ev.reserved,
     available |-> ev.available, requiresApproval |-> ev.requiresApproval]

Quiescent == \A r \in Slots : reqs[r].op = "idle"

\* A new handler takes the lowest free slot.
FreeSlot(r) ==
    /\ reqs[r].op = "idle"
    /\ \A s \in Slots : s < r => reqs[s].op # "idle"

\* The handler h answers with code c: what it held in memory is dropped, and
\* of the request the route, the caller, the target and the answer stay on
\* record.
Answer(h, c) ==
    [Idle EXCEPT !.op = h.op, !.pc = "done", !.caller = h.caller, !.role = h.role,
                 !.ev = h.ev, !.bk = h.bk, !.qty = h.qty, !.avail0 = h.avail0,
                 !.code = c]

Respond(r, c) == reqs' = [reqs EXCEPT ![r] = Answer(reqs[r], c)]
Goto(r, p) == reqs' = [reqs EXCEPT ![r].pc = p]

\* The first step of a request: it answers at once (p = "done") or goes on.
Arrive(r, h, p, c) ==
    reqs' = [reqs EXCEPT ![r] = IF p = "done" THEN Answer(h, c)
                                ELSE [h EXCEPT !.pc = p]]

\* ------------------------------------------------- callers of the API
Callers ==
    {[id |-> u, role |-> "user"] : u \in UserIds}
      \cup {[id |-> OrganizerId, role |-> "organizer"],
            [id |-> OtherOrganizerId, role |-> "organizer"],
            [id |-> AdminId, role |-> "admin"]}

\* req.user.role of the caller whose id is u.
RoleOf(u) == (CHOOSE c \in Callers : c.id = u).role

\* authorize('organizer', 'admin') lets only these reach the handler.
Staff == {c \in Callers : c.role \in {"organizer", "admin"}}

\* canCancel / canUpdate: the requester, the event's organizer or an admin.
MayTouchBooking(b, c, role) ==
    \/ b.userId = c
    \/ events[b.eventId].organizerId = c
    \/ role = "admin"

\* A mutant of the ownership check: every organizer passes.
OwnerNotChecked(organizerId, c, role) == FALSE

\* The ownership check of the organizer routes.
NotOwner(organizerId, c, role) == role = "organizer" /\ organizerId # c

\* A request on the booking `id`.
OnBooking(op, c, id) ==
    [Idle EXCEPT !.op = op, !.caller = c.id, !.role = c.role, !.bk = id,
        !.ev = IF Stored(bookings, id) THEN Row(bookings, id).eventId ELSE 0,
        !.avail0 = IF Stored(bookings, id)
                     THEN events[Row(bookings, id).eventId].available ELSE 0]

\* A request on the event e.
OnEvent(op, c, e) ==
    [Idle EXCEPT !.op = op, !.caller = c.id, !.role = c.role, !.ev = e,
                 !.avail0 = events[e].available]

\* ------------------------------------------------- POST /api/bookings (create)
\* The request of user u for q places at event e, naming a attendees:
\* Event.findById(eventId) and event.isBookable().
CreateFindEvent(r, u, e, q, a) ==
    /\ FreeSlot(r)
    /\ Cardinality(bookings) < MaxBookings
    /\ LET h == [OnEvent("create", [id |-> u, role |-> RoleOf(u)], e)
                    EXCEPT !.qty = q, !.att = a]
           ev == events[e]
       IN IF ~ev.exists THEN Arrive(r, h, "done", "EVENT_NOT_FOUND")
          ELSE IF ~isBookable(ev, now) THEN Arrive(r, h, "done", "EVENT_NOT_BOOKABLE")
          ELSE Arrive(r, [h EXCEPT !.snap = Snapshot(ev)], "c_dup", "none")
    /\ UNCHANGED <<storeVars, now, pageVars>>

\* Booking.checkDuplicateBooking, then the capacity and attendee-count checks
\* on the event document loaded by CreateFindEvent.
CreateChecks(r) ==
    /\ reqs[r].op = "create" /\ reqs[r].pc = "c_dup"
    /\ IF checkDuplicateBooking(bookings, reqs[r].ev, reqs[r].caller)
         THEN Respond(r, "DUPLICATE_BOOKING")
       ELSE IF reqs[r].snap.available < reqs[r].qty
         THEN Respond(r, "INSUFFICIENT_CAPACITY")
       ELSE IF reqs[r].att # reqs[r].qty
         THEN Respond(r, "ATTENDEE_COUNT_MISMATCH")
       ELSE Goto(r, "c_presave")
    /\ UNCHANGED <<storeVars, now, pageVars>>

\* Booking.create: the pre('save') hook of a new booking loads the event again.
CreatePreSave(r) ==
    /\ reqs[r].op = "create" /\ reqs[r].pc = "c_presave"
    /\ LET ev == events[reqs[r].ev] IN
         IF ~ev.exists \/ ev.start <= now \/ ev.status # "published"
           THEN Respond(r, "INTERNAL_SERVER_ERROR")
         ELSE Goto(r, "c_insert")
    /\ UNCHANGED <<storeVars, now, pageVars>>

\* A mutant of the initial status: the approval requirement is overlooked.
InitialStatusAlwaysConfirmed(requiresApproval) == "confirmed"

\* status: event.requiresApproval ? 'pending' : 'confirmed'
InitialStatus(requiresApproval) ==
    IF requiresApproval THEN "pending" ELSE "confirmed"

NewBooking(r) ==
    [eventId |-> reqs[r].ev, userId |-> reqs[r].caller,
     n |-> 1 + Cardinality({b \in bookings :
                  b.eventId = reqs[r].ev /\ b.userId = reqs[r].caller}),
     status |-> InitialStatus(reqs[r].snap.requiresApproval),
     quantity |-> reqs[r].qty, cancelledAt |-> NoDate, cancelReason |-> "none",
     checkedIn |-> FALSE, checkInTime |-> NoDate]

\* Booking.create: the insert, refused by the unique index with error 11000,
\* which the error handler answers as DUPLICATE_FIELD.
CreateInsert(r) ==
    /\ reqs[r].op = "create" /\ reqs[r].pc = "c_insert"
    /\ IF UniqueIndexViolated(bookings, reqs[r].ev, reqs[r].caller)
         THEN Respond(r, "DUPLICATE_FIELD") /\ UNCHANGED bookings
         ELSE /\ bookings' = bookings \cup {NewBooking(r)}
              /\ reqs' = [reqs EXCEPT ![r].pc = "post_find", ![r].bk = Id(NewBooking(r))]
    /\ UNCHANGED <<events, now, pageVars>>

\* ------------------------------------------- Booking post('save') hook
\* Event.findById(doc.eventId); a missing event ends the hook quietly.
PostSaveFindEvent(r) ==
    /\ reqs[r].pc = "post_find"
    /\ LET ev == events[reqs[r].ev] IN
         IF ~ev.exists THEN Respond(r, "OK")
         ELSE reqs' = [reqs EXCEPT ![r].pc = "post_agg", ![r].snap = Snapshot(ev)]
    /\ UNCHANGED <<storeVars, now, pageVars>>

\* updateAvailableCapacity: the aggregate over the event's active bookings.
UpdateCapacityAggregate(r) ==
    /\ reqs[r].pc = "post_agg"
    /\ reqs' = [reqs EXCEPT ![r].pc = "post_save",
                            ![r].booked = BookedQuantity(bookings, reqs[r].ev)]
    /\ UNCHANGED <<storeVars, now, pageVars>>

\* updateAvailableCapacity: this.capacity.available = ...; this.save().  The save
\* validates the document in memory and writes the modified path only.
UpdateCapacitySave(r) ==
    /\ reqs[r].pc = "post_save"
    /\ LET s == reqs[r].snap
           a == RecomputeAvailable(s.total, s.reserved, reqs[r].booked)
       IN IF ~EventSaveValid(s.reserved, s.total, a)
            THEN Respond(r, "INTERNAL_SERVER_ERROR") /\ UNCHANGED events
          ELSE IF a = s.available
            THEN Respond(r, "OK") /\ UNCHANGED events
          ELSE IF ~events[reqs[r].ev].exists
            THEN Respond(r, "INTERNAL_SERVER_ERROR") /\ UNCHANGED events
          ELSE /\ events' = [events EXCEPT ![reqs[r].ev].available = a]
               /\ Respond(r, "OK")
    /\ UNCHANGED <<bookings, now, pageVars>>

\* The response has been sent: the handler is gone.
Finish(r) ==
    /\ reqs[r].pc = "done"
    /\ reqs' = [reqs EXCEPT ![r] = Idle]
    /\ UNCHANGED <<storeVars, now, pageVars>>

\* -------------------------------------------- PUT /api/bookings/:id/cancel
HoursUntil(start, t) == (start - t) * HoursPerTick

\* The request of caller c to cancel the booking id: Booking.findById with the
\* event populated, the permission check, canBeCancelled, the 24 hour policy,
\* and the in-memory part of cancel().
CancelFind(r, c, id) ==
    /\ FreeSlot(r)
    /\ LET h == OnBooking("cancel", c, id) IN
         IF ~Stored(bookings, id) THEN Arrive(r, h, "done", "BOOKING_NOT_FOUND")
         ELSE LET b == Row(bookings, id)
                  ev == events[b.eventId]
              IN IF ~ev.exists /\ b.userId # c.id
                   THEN Arrive(r, h, "done", "INTERNAL_SERVER_ERROR")
                 ELSE IF ev.exists /\ ~MayTouchBooking(b, c.id, c.role)
                   THEN Arrive(r, h, "done", "BOOKING_CANCEL_DENIED")
                 ELSE IF ~canBeCancelled(b)
                   THEN Arrive(r, h, "done", "BOOKING_CANNOT_BE_CANCELLED")
                 ELSE IF ~ev.exists
                   THEN Arrive(r, h, "done", "INTERNAL_SERVER_ERROR")
                 ELSE IF HoursUntil(ev.start, now) < CancellationWindowHours
                           /\ b.userId = c.id
                   THEN Arrive(r, h, "done", "CANCELLATION_DEADLINE_PASSED")
                 ELSE Arrive(r, [h EXCEPT !.qty = b.quantity], "x_save", "none")
    /\ UNCHANGED <<storeVars, now, pageVars>>

UserCancelReason == "Cancelled by user"

\* cancel(): this.save() writes status, cancelledAt and cancelReason.
CancelSave(r) ==
    /\ reqs[r].op = "cancel" /\ reqs[r].pc = "x_save"
    /\ bookings' = SetRow(bookings, reqs[r].bk,
                      [Row(bookings, reqs[r].bk) EXCEPT !.status = "cancelled",
                          !.cancelledAt = now, !.cancelReason = UserCancelReason])
    /\ Goto(r, "post_find")
    /\ UNCHANGED <<events, now, pageVars>>

\* ------------------------------------------- PUT /api/bookings/:id/confirm
\* A mutant of the guard of confirm(): a waitlisted booking passes too.
ConfirmAllowedFromWaitlisted(b) == b.status \in {"pending", "waitlisted"}

\* The guard of confirm(): this.status !== 'pending' throws.
ConfirmAllowed(b) == b.status = "pending"

\* Booking.findById, the ownership check and the guard of confirm().
ConfirmFind(r, c, id) ==
    /\ FreeSlot(r)
    /\ LET h == OnBooking("confirm", c, id) IN
         IF ~Stored(bookings, id) THEN Arrive(r, h, "done", "BOOKING_NOT_FOUND")
         ELSE LET b == Row(bookings, id)
                  ev == events[b.eventId]
              IN IF ~ev.exists /\ c.role = "organizer"
                   THEN Arrive(r, h, "done", "INTERNAL_SERVER_ERROR")
                 ELSE IF ev.exists /\ NotOwner(ev.organizerId, c.id, c.role)
                   THEN Arrive(r, h, "done", "BOOKING_CONFIRM_DENIED")
                 ELSE IF ~ConfirmAllowed(b)
                   THEN Arrive(r, h, "done", "INTERNAL_SERVER_ERROR")
                 ELSE Arrive(r, h, "cf_save", "none")
    /\ UNCHANGED <<storeVars, now, pageVars>>

\* confirm(): this.save() writes status.
ConfirmSave(r) ==
    /\ reqs[r].op = "confirm" /\ reqs[r].pc = "cf_save"
    /\ bookings' = SetRow(bookings, reqs[r].bk,
                      [Row(bookings, reqs[r].bk) EXCEPT !.status = "confirmed"])
    /\ Goto(r, "post_find")
    /\ UNCHANGED <<events, now, pageVars>>

\* ------------------------------------------- PUT /api/bookings/:id/checkin
\* toDateString(): the calendar day of a time.
Day(t) == t \div TicksPerDay

\* A mutant of the guard of checkIn(): a pending booking passes too.
CheckInAllowedWhenPending(b) == b.status \in ActiveStatuses

\* The guard of checkIn(): this.status !== 'confirmed' throws.
CheckInAllowed(b) == b.status = "confirmed"

\* Booking.findById, the ownership check, the event-day check and the guard
\* of checkIn().
CheckInFind(r, c, id) ==
    /\ FreeSlot(r)
    /\ LET h == OnBooking("checkIn", c, id) IN
         IF ~Stored(bookings, id) THEN Arrive(r, h, "done", "BOOKING_NOT_FOUND")
         ELSE LET b == Row(bookings, id)
                  ev == events[b.eventId]
              IN IF ~ev.exists THEN Arrive(r, h, "done", "INTERNAL_SERVER_ERROR")
                 ELSE IF NotOwner(ev.organizerId, c.id, c.role)
                   THEN Arrive(r, h, "done", "BOOKING_CHECKIN_DENIED")
                 ELSE IF Day(ev.start) # Day(now)
                   THEN Arrive(r, h, "done", "CHECKIN_NOT_AVAILABLE")
                 ELSE IF ~CheckInAllowed(b)
                   THEN Arrive(r, h, "done", "INTERNAL_SERVER_ERROR")
                 ELSE Arrive(r, h, "ci_save", "none")
    /\ UNCHANGED <<storeVars, now, pageVars>>

\* checkIn(): this.save() writes checkInStatus and checkInTime.
CheckInSave(r) ==
    /\ reqs[r].op = "checkIn" /\ reqs[r].pc = "ci_save"
    /\ bookings' = SetRow(bookings, reqs[r].bk,
                      [Row(bookings, reqs[r].bk) EXCEPT !.checkedIn = TRUE,
                                                        !.checkInTime = now])
    /\ Goto(r, "post_find")
    /\ UNCHANGED <<events, now, pageVars>>

\* --------------------------------------------------- PUT /api/bookings/:id
\* allowedFields: 'status' only for the event's organizer and for an admin.
MayWriteStatus(organizerId, c, role) == organizerId = c \/ role = "admin"

\* The request of caller c to update the booking id, st being req.body.status
\* ("none" when the body has no status): Booking.findById with the event
\* populated, the permission check and the filter of the allowed fields.
UpdateBookingFind(r, c, id, st) ==
    /\ FreeSlot(r)
    /\ LET h == OnBooking("updateBooking", c, id) IN
         IF ~Stored(bookings, id) THEN Arrive(r, h, "done", "BOOKING_NOT_FOUND")
         ELSE LET b == Row(bookings, id)
                  ev == events[b.eventId]
              IN IF ~ev.exists THEN Arrive(r, h, "done", "INTERNAL_SERVER_ERROR")
                 ELSE IF ~MayTouchBooking(b, c.id, c.role)
                   THEN Arrive(r, h, "done", "BOOKING_UPDATE_DENIED")
                 ELSE IF MayWriteStatus(ev.organizerId, c.id, c.role)
                   THEN Arrive(r, [h EXCEPT !.status = st], "ub_write", "none")
                 ELSE Arrive(r, h, "ub_write", "none")
    /\ UNCHANGED <<storeVars, now, pageVars>>

\* Booking.findByIdAndUpdate(id, updateData): no save hook runs.
UpdateBookingWrite(r) ==
    /\ reqs[r].op = "updateBooking" /\ reqs[r].pc = "ub_write"
    /\ IF reqs[r].status = "none"
         THEN UNCHANGED bookings
         ELSE bookings' = SetRow(bookings, reqs[r].bk,
                  [Row(bookings, reqs[r].bk) EXCEPT !.status = reqs[r].status])
    /\ Respond(r, "OK")
    /\ UNCHANGED <<events, now, pageVars>>

\* ---------------------------------------------- PUT /api/events/:id/cancel
\* The request of caller c to cancel the event e: Event.findById, the
\* ownership check and the already-cancelled check.
CancelEventFind(r, c, e) ==
    /\ FreeSlot(r)
    /\ LET h == OnEvent("cancelEvent", c, e)
           ev == events[e]
       IN IF ~ev.exists THEN Arrive(r, h, "done", "EVENT_NOT_FOUND")
          ELSE IF NotOwner(ev.organizerId, c.id, c.role)
            THEN Arrive(r, h, "done", "EVENT_CANCEL_DENIED")
          ELSE IF ev.status = "cancelled"
            THEN Arrive(r, h, "done", "EVENT_ALREADY_CANCELLED")
          ELSE Arrive(r, [h EXCEPT !.snap = Snapshot(ev)], "e_save", "none")
    /\ UNCHANGED <<storeVars, now, pageVars>>

\* event.status = 'cancelled'; event.save(): validated, then status written.
CancelEventSave(r) ==
    /\ reqs[r].op = "cancelEvent" /\ reqs[r].pc = "e_save"
    /\ LET s == reqs[r].snap IN
         IF ~EventSaveValid(s.reserved, s.total, s.available)
              \/ ~events[reqs[r].ev].exists
           THEN Respond(r, "INTERNAL_SERVER_ERROR") /\ UNCHANGED events
         ELSE /\ events' = [events EXCEPT ![reqs[r].ev].status = "cancelled"]
              /\ reqs' = [reqs EXCEPT ![r].pc = "e_many", ![r].snap = NoSnap]
    /\ UNCHANGED <<bookings, now, pageVars>>

EventCancelReason == "Event cancelled by organizer"

\* A mutant of the cascade's filter: pending bookings are overlooked.
CascadeMatchesConfirmedOnly(b, e) == b.eventId = e /\ b.status = "confirmed"

\* The filter of the cascade's updateMany.
CascadeMatches(b, e) == b.eventId = e /\ b.status \in ActiveStatuses

\* Booking.updateMany: every matching row is cancelled; no save hook runs.
CancelEventCascade(r) ==
    /\ reqs[r].op = "cancelEvent" /\ reqs[r].pc = "e_many"
    /\ bookings' = {IF CascadeMatches(b, reqs[r].ev)
                      THEN [b EXCEPT !.status = "cancelled", !.cancelledAt = now,
                                     !.cancelReason = EventCancelReason]
                      ELSE b : b \in bookings}
    /\ Respond(r, "OK")
    /\ UNCHANGED <<events, now, pageVars>>

\* The store fails the updateMany: the catch block answers 500.
CancelEventCascadeFails(r) ==
    /\ reqs[r].op = "cancelEvent" /\ reqs[r].pc = "e_many"
    /\ Respond(r, "INTERNAL_SERVER_ERROR")
    /\ UNCHANGED <<storeVars, now, pageVars>>

\* ----------------------------------------------------- PUT /api/events/:id
\* The request of caller c to update the event e, hasCap telling whether
\* req.body.capacity is present, as {total: t, reserved: rs}: Event.findById
\* and the ownership check.
UpdateEventFind(r, c, e, hasCap, t, rs) ==
    /\ FreeSlot(r)
    /\ LET h == [OnEvent("updateEvent", c, e)
                    EXCEPT !.hasCap = hasCap, !.total = t, !.reserved = rs]
           ev == events[e]
       IN IF ~ev.exists THEN Arrive(r, h, "done", "EVENT_NOT_FOUND")
          ELSE IF NotOwner(ev.organizerId, c.id, c.role)
            THEN Arrive(r, h, "done", "EVENT_UPDATE_DENIED")
          ELSE Arrive(r, h, IF hasCap THEN "ue_agg" ELSE "ue_write", "none")
    /\ UNCHANGED <<storeVars, now, pageVars>>

\* The aggregate over the active bookings and the capacity-reduction check.
UpdateEventCheck(r) ==
    /\ reqs[r].op = "updateEvent" /\ reqs[r].pc = "ue_agg"
    /\ IF reqs[r].total < BookedQuantity(bookings, reqs[r].ev)
         THEN Respond(r, "CAPACITY_REDUCTION_DENIED")
         ELSE Goto(r, "ue_write")
    /\ UNCHANGED <<storeVars, now, pageVars>>

\* The capacity an update leaves: $set of the nested object replaces it whole,
\* and a reader sees the schema default of the missing `available`, the total.
WrittenCapacity(ev, hasCap, t, rs) ==
    IF hasCap THEN [ev EXCEPT !.total = t, !.reserved = rs, !.available = t]
    ELSE ev

\* Event.findByIdAndUpdate(id, req.body, {new: true, runValidators: true}): no
\* save hook runs; the document returned goes on to updateAvailableCapacity.
UpdateEventWrite(r) ==
    /\ reqs[r].op = "updateEvent" /\ reqs[r].pc = "ue_write"
    /\ IF ~events[reqs[r].ev].exists
         THEN Respond(r, "INTERNAL_SERVER_ERROR") /\ UNCHANGED events
         ELSE LET ev == WrittenCapacity(events[reqs[r].ev], reqs[r].hasCap,
                                        reqs[r].total, reqs[r].reserved)
              IN /\ events' = [events EXCEPT ![reqs[r].ev] = ev]
                 /\ reqs' = [reqs EXCEPT ![r].pc = "post_agg", ![r].snap = Snapshot(ev)]
    /\ UNCHANGED <<bookings, now, pageVars>>

\* -------------------------------------------------- DELETE /api/events/:id
\* The request of caller c to delete the event e: Event.findById and the
\* ownership check.
DeleteEventFind(r, c, e) ==
    /\ FreeSlot(r)
    /\ LET h == OnEvent("deleteEvent", c, e)
           ev == events[e]
       IN IF ~ev.exists THEN Arrive(r, h, "done", "EVENT_NOT_FOUND")
          ELSE IF NotOwner(ev.organizerId, c.id, c.role)
            THEN Arrive(r, h, "done", "EVENT_DELETE_DENIED")
          ELSE Arrive(r, h, "d_count", "none")
    /\ UNCHANGED <<storeVars, now, pageVars>>

\* Booking.countDocuments over the event's pending and confirmed bookings.
DeleteEventCount(r) ==
    /\ reqs[r].op = "deleteEvent" /\ reqs[r].pc = "d_count"
    /\ IF Cardinality(ActiveBookings(bookings, reqs[r].ev)) > 0
         THEN Respond(r, "EVENT_HAS_BOOKINGS")
         ELSE Goto(r, "d_delete")
    /\ UNCHANGED <<storeVars, now, pageVars>>

\* Event.findByIdAndDelete: the document is removed, if it is still there.
DeleteEventRemove(r) ==
    /\ reqs[r].op = "deleteEvent" /\ reqs[r].pc = "d_delete"
    /\ events' = [events EXCEPT ![reqs[r].ev].exists = FALSE]
    /\ Respond(r, "OK")
    /\ UNCHANGED <<bookings, now, pageVars>>

\* --------------------------------------------- PUT /api/events/:id/publish
\* The request of caller c to publish the event e: Event.findById, the
\* ownership check and the already-published check.
PublishFind(r, c, e) ==
    /\ FreeSlot(r)
    /\ LET h == OnEvent("publish", c, e)
           ev == events[e]
       IN IF ~ev.exists THEN Arrive(r, h, "done", "EVENT_NOT_FOUND")
          ELSE IF NotOwner(ev.organizerId, c.id, c.role)
            THEN Arrive(r, h, "done", "EVENT_PUBLISH_DENIED")
          ELSE IF ev.status = "published"
            THEN Arrive(r, h, "done", "EVENT_ALREADY_PUBLISHED")
          ELSE Arrive(r, [h EXCEPT !.snap = Snapshot(ev)], "p_save", "none")
    /\ UNCHANGED <<storeVars, now, pageVars>>

\* event.status = 'published'; event.save(): validated, then status written.
PublishSave(r) ==
    /\ reqs[r].op = "publish" /\ reqs[r].pc = "p_save"
    /\ LET s == reqs[r].snap IN
         IF ~EventSaveValid(s.reserved, s.total, s.available)
              \/ ~events[reqs[r].ev].exists
           THEN Respond(r, "INTERNAL_SERVER_ERROR") /\ UNCHANGED events
         ELSE /\ events' = [events EXCEPT ![reqs[r].ev].status = "published"]
              /\ Respond(r, "OK")
    /\ UNCHANGED <<bookings, now, pageVars>>

\* ------------------------------------------------------------------ clock
\* Time passes between requests.
Tick ==
    /\ Quiescent
    /\ now < MaxNow
    /\ now' = now + 1
    /\ UNCHANGED <<storeVars, reqs, pageVars>>

\* ------------------------------------------------------------------ Init
\* Every event starts at tick 3: the second half of the day after tick 0.
StartTimes == {3}

\* An event as POST /api/events stores it (available = total - reserved, accepted
\* by the pre('save') hook) and PUT /:id/publish publishes it.  Odd events
\* confirm bookings at once, even ones require approval.
InitialEvent(e, t, rs, st) ==
    [exists |-> TRUE, status |-> "published", organizerId |-> OrganizerId,
     total |-> t, reserved |-> rs, available |-> t - rs,
     requiresApproval |-> (e % 2 = 0), start |-> st]

NoCursor == [dateTime |-> NoDate, id |-> 0]

\* No listing request made yet.
NoAnswer ==
    [route |-> "none", cursor |-> "absent", failed |-> FALSE, ids |-> <<>>,
     hasNextPage |-> FALSE, limit |-> 0]

InitNoPages ==
    /\ catalog = {}
    /\ query = [limit |-> 1, sort |-> "-dateTime.start"]
    /\ cursor = NoCursor
    /\ seen = <<>>
    /\ more = TRUE
    /\ answer = NoAnswer

\* Event 1 is drawn with every total and the reserved allocations given; the
\* other events have the largest total and nothing reserved.
InitStore(Reserveds) ==
    /\ \E t \in 1..MaxTotal, rs \in Reserveds, st \in StartTimes :
          /\ rs <= t
          /\ events = [e \in EventIds |->
                          IF e = 1 THEN InitialEvent(e, t, rs, st)
                          ELSE InitialEvent(e, MaxTotal, 0, st)]
    /\ bookings = {}
    /\ reqs = [r \in Slots |-> Idle]

CreateSteps(r) == CreateChecks(r) \/ CreatePreSave(r) \/ CreateInsert(r)

PostSaveSteps(r) ==
    \/ PostSaveFindEvent(r) \/ UpdateCapacityAggregate(r) \/ UpdateCapacitySave(r)

CancelEventSteps(r) ==
    \/ CancelEventSave(r) \/ CancelEventCascade(r) \/ CancelEventCascadeFails(r)

TargetIds == BookingIds \cup {MissingId}

\* One request at a time: every handler runs in the first slot, which the next
\* request finds free only when the one before it has been answered.
OneAtATime == {s \in Slots : \A r \in Slots : s <= r}

\* ------------------------------------------------------- SeqBookingSpec
\* create, cancel, confirm and checkIn, one request at a time, time passing.
SeqBookingInit == InitStore({0, 1}) /\ now = 0 /\ InitNoPages

SeqBookingNext ==
    \/ \E r \in OneAtATime, u \in UserIds, e \in EventIds, q \in 1..MaxQty :
          \E a \in {q, q + 1} : CreateFindEvent(r, u, e, q, a)
    \/ \E r \in OneAtATime, c \in Callers, id \in TargetIds : CancelFind(r, c, id)
    \/ \E r \in OneAtATime, c \in Staff, id \in TargetIds : ConfirmFind(r, c, id)
    \/ \E r \in OneAtATime, c \in Staff, id \in TargetIds : CheckInFind(r, c, id)
    \/ \E r \in Slots :
          \/ CreateSteps(r)
          \/ CancelSave(r) \/ ConfirmSave(r) \/ CheckInSave(r)
          \/ PostSaveSteps(r) \/ Finish(r)
    \/ Tick

SeqBookingSpec == SeqBookingInit /\ [][SeqBookingNext]_vars

\* ------------------------------------------------------------------ Spec
\* The booking lifecycle with the organizer's and the administrator's
\* operations on bookings and the event cancellation, one request at a time.
Init == InitStore({0}) /\ now = 0 /\ InitNoPages

Next ==
    \/ \E r \in OneAtATime, u \in UserIds, e \in EventIds, q \in 1..MaxQty :
          CreateFindEvent(r, u, e, q, q)
    \/ \E r \in OneAtATime, c \in Callers, id \in TargetIds : CancelFind(r, c, id)
    \/ \E r \in OneAtATime, c \in Staff, id \in TargetIds : ConfirmFind(r, c, id)
    \/ \E r \in OneAtATime, c \in Callers, id \in TargetIds,
             st \in BookingStatuses \cup {"none"} : UpdateBookingFind(r, c, id, st)
    \/ \E r \in OneAtATime, c \in Staff, e \in EventIds : CancelEventFind(r, c, e)
    \/ \E r \in Slots :
          \/ CreateSteps(r)
          \/ CancelSave(r) \/ ConfirmSave(r) \/ UpdateBookingWrite(r)
          \/ CancelEventSteps(r) \/ PostSaveSteps(r) \/ Finish(r)

Spec == Init /\ [][Next]_vars

\* ------------------------------------------------------- CapacitySpec
\* Booking creation and cancellation, event update and event cancellation,
\* one request at a time.
CapacityInit == InitStore({0, 1}) /\ now = 0 /\ InitNoPages

CapacityNext ==
    \/ \E r \in OneAtATime, u \in UserIds, e \in EventIds, q \in 1..MaxQty :
          CreateFindEvent(r, u, e, q, q)
    \/ \E r \in OneAtATime, c \in Callers, id \in TargetIds : CancelFind(r, c, id)
    \/ \E r \in OneAtATime, c \in Staff, e \in EventIds : CancelEventFind(r, c, e)
    \/ \E r \in OneAtATime, c \in Staff, e \in EventIds,
             t \in 1..MaxTotal, rs \in 0..MaxTotal :
          UpdateEventFind(r, c, e, TRUE, t, rs)
    \/ \E r \in OneAtATime, c \in Staff, e \in EventIds :
          UpdateEventFind(r, c, e, FALSE, 0, 0)
    \/ \E r \in Slots :
          \/ CreateSteps(r) \/ CancelSave(r)
          \/ CancelEventSteps(r)
          \/ UpdateEventCheck(r) \/ UpdateEventWrite(r)
          \/ PostSaveSteps(r) \/ Finish(r)

CapacitySpec == CapacityInit /\ [][CapacityNext]_vars

\* ------------------------------------------------------- CreateSpec
\* Booking creations racing one another, the clock standing still.
CreateInit == InitStore({0}) /\ now = 0 /\ InitNoPages

CreateNext ==
    \/ \E r \in Slots, u \in UserIds, e \in EventIds, q \in 1..MaxQty :
          CreateFindEvent(r, u, e, q, q)
    \/ \E r \in Slots : CreateSteps(r) \/ PostSaveSteps(r) \/ Finish(r)

CreateSpec == CreateInit /\ [][CreateNext]_vars

\* ------------------------------------------------------- CancelSpec
\* Bookings made by callers of every role and their cancellation, one request
\* at a time, time passing.
CancelInit == InitStore({0}) /\ now = 0 /\ InitNoPages

CancelNext ==
    \/ \E r \in OneAtATime, c \in Callers, e \in EventIds, q \in 1..MaxQty :
          CreateFindEvent(r, c.id, e, q, q)
    \/ \E r \in OneAtATime, c \in Callers, id \in TargetIds : CancelFind(r, c, id)
    \/ \E r \in Slots :
          CreateSteps(r) \/ CancelSave(r) \/ PostSaveSteps(r) \/ Finish(r)
    \/ Tick

CancelSpec == CancelInit /\ [][CancelNext]_vars

\* ------------------------------------------------------- RaceSpec
\* Booking creations racing event cancellations, the clock standing still.
RaceInit == InitStore({0}) /\ now = 0 /\ InitNoPages

RaceNext ==
    \/ \E r \in Slots, u \in UserIds, e \in EventIds, q \in 1..MaxQty :
          CreateFindEvent(r, u, e, q, q)
    \/ \E r \in Slots, c \in Staff, e \in EventIds : CancelEventFind(r, c, e)
    \/ \E r \in Slots :
          CreateSteps(r) \/ CancelEventSteps(r) \/ PostSaveSteps(r) \/ Finish(r)

RaceSpec == RaceInit /\ [][RaceNext]_vars

DeleteEventSteps(r) == DeleteEventCount(r) \/ DeleteEventRemove(r)

\* ------------------------------------------------------- DeleteRaceSpec
\* Booking creations racing event deletions, the clock standing still.
DeleteRaceInit == InitStore({0}) /\ now = 0 /\ InitNoPages

DeleteRaceNext ==
    \/ \E r \in Slots, u \in UserIds, e \in EventIds, q \in 1..MaxQty :
          CreateFindEvent(r, u, e, q, q)
    \/ \E r \in Slots, c \in Staff, e \in EventIds : DeleteEventFind(r, c, e)
    \/ \E r \in Slots :
          CreateSteps(r) \/ DeleteEventSteps(r) \/ PostSaveSteps(r) \/ Finish(r)

DeleteRaceSpec == DeleteRaceInit /\ [][DeleteRaceNext]_vars

\* ------------------------------------------------------- OwnershipSpec
\* The operations on events and on bookings asked by callers of every role,
\* owners or not, one request at a time.
OwnershipInit == InitStore({0}) /\ now = 0 /\ InitNoPages

OwnershipNext ==
    \/ \E r \in OneAtATime, u \in UserIds, e \in EventIds, q \in 1..MaxQty :
          CreateFindEvent(r, u, e, q, q)
    \/ \E r \in OneAtATime, c \in Callers, id \in TargetIds : CancelFind(r, c, id)
    \/ \E r \in OneAtATime, c \in Callers, id \in TargetIds,
             st \in {"none", "pending"} : UpdateBookingFind(r, c, id, st)
    \/ \E r \in OneAtATime, c \in Staff, e \in EventIds : CancelEventFind(r, c, e)
    \/ \E r \in OneAtATime, c \in Staff, e \in EventIds : PublishFind(r, c, e)
    \/ \E r \in OneAtATime, c \in Staff, e \in EventIds : DeleteEventFind(r, c, e)
    \/ \E r \in OneAtATime, c \in Staff, e \in EventIds, t \in 1..MaxTotal :
          UpdateEventFind(r, c, e, TRUE, t, 0)
    \/ \E r \in Slots :
          \/ CreateSteps(r)
          \/ CancelSave(r) \/ UpdateBookingWrite(r)
          \/ CancelEventSteps(r) \/ PublishSave(r) \/ DeleteEventSteps(r)
          \/ UpdateEventCheck(r) \/ UpdateEventWrite(r)
          \/ PostSaveSteps(r) \/ Finish(r)

OwnershipSpec == OwnershipInit /\ [][OwnershipNext]_vars

\* ------------------------------------------------------- UpdateRaceSpec
\* Booking creations racing an event update that writes the capacity (one
\* update at a time), the clock standing still.
\* req.params.id of the updates: the event drawn with every total.
UpdatedEvents == {e \in EventIds : \A f \in EventIds : e <= f}

UpdateRaceInit == InitStore({0}) /\ now = 0 /\ InitNoPages

UpdateRaceNext ==
    \/ \E r \in Slots, u \in UserIds, e \in EventIds, q \in 1..MaxQty :
          CreateFindEvent(r, u, e, q, q)
    \/ \E r \in OneAtATime, c \in Staff, e \in UpdatedEvents,
             t \in 1..MaxTotal, rs \in 0..1 :
          UpdateEventFind(r, c, e, TRUE, t, rs)
    \/ \E r \in Slots :
          \/ CreateSteps(r)
          \/ UpdateEventCheck(r) \/ UpdateEventWrite(r)
          \/ PostSaveSteps(r) \/ Finish(r)

UpdateRaceSpec == UpdateRaceInit /\ [][UpdateRaceNext]_vars

\* ------------------------------------------------------- LifecycleRaceSpec
\* Cancellations and confirmations racing one another and a booking creation
\* (one creation at a time), the clock standing still.
\* The callers of the races: the users, who book and cancel, and the
\* organizer owning the events, who confirms.
Requesters == {c \in Callers : c.role = "user"}
Owners == {c \in Callers : c.id = OrganizerId}

LifecycleRaceInit == InitStore({0}) /\ now = 0 /\ InitNoPages

LifecycleRaceNext ==
    \/ \E r \in OneAtATime, u \in UserIds, e \in EventIds, q \in 1..MaxQty :
          CreateFindEvent(r, u, e, q, q)
    \/ \E r \in Slots, c \in Requesters, id \in TargetIds : CancelFind(r, c, id)
    \/ \E r \in Slots, c \in Owners, id \in TargetIds : ConfirmFind(r, c, id)
    \/ \E r \in Slots :
          \/ CreateSteps(r) \/ CancelSave(r) \/ ConfirmSave(r)
          \/ PostSaveSteps(r) \/ Finish(r)

LifecycleRaceSpec == LifecycleRaceInit /\ [][LifecycleRaceNext]_vars

\* --------------------------------------------------- GET /api/events (list)
NumListed == 3
MaxStart == 2
MaxLimit == 2
MaxSeen == 6
LimitCap == 50

Sorts == {"-dateTime.start", "dateTime.start", "-createdAt", "createdAt"}

Min(a, b) == IF a < b THEN a ELSE b

\* const limitNum = Math.min(parseInt(limit), 50)
LimitNum(limit) == Min(limit, LimitCap)

\* The listed events are [id, start] records; they were created in the order
\* of their ids, so that createdAt orders them as id does.
SortKey(ev, sort) ==
    IF sort \in {"-dateTime.start", "dateTime.start"} THEN ev.start ELSE ev.id

\* .sort(sort): a leading '-' asks for the descending order.
InOrder(a, b, sort) ==
    IF sort \in {"-dateTime.start", "-createdAt"}
      THEN SortKey(a, sort) >= SortKey(b, sort)
      ELSE SortKey(a, sort) <= SortKey(b, sort)

\* The cursor's filter: dateTime.start < cursorData.dateTime, added only when
\* the sort is '-dateTime.start'.  JSON carries the date of the cursor with
\* the millisecond precision of the stored date, so it comes back unchanged.
CursorFilter(cat, cur, sort) ==
    {ev \in cat : cur = NoCursor \/ sort # "-dateTime.start"
                     \/ ev.start < cur.dateTime}

\* The orders in which the store may return the documents S sorted by `sort`:
\* the order among documents of equal key is the store's to choose.
Orderings(S, sort) ==
    {s \in [1..Cardinality(S) -> S] :
        /\ \A i, j \in 1..Cardinality(S) : i # j => s[i] # s[j]
        /\ \A i, j \in 1..Cardinality(S) : i < j => InOrder(s[i], s[j], sort)}

\* limit(limitNum + 1), hasNextPage and events.pop()
Fetched(s, n) == SubSeq(s, 1, Min(Len(s), n + 1))
HasNextPage(s, n) == Len(Fetched(s, n)) > n
PageOf(s, n) == IF HasNextPage(s, n) THEN SubSeq(s, 1, n) ELSE Fetched(s, n)

\* nextCursor: the start and the id of the page's last event.
NextCursor(s, n) ==
    IF HasNextPage(s, n) /\ Len(PageOf(s, n)) > 0
      THEN [dateTime |-> PageOf(s, n)[Len(PageOf(s, n))].start,
            id |-> PageOf(s, n)[Len(PageOf(s, n))].id]
      ELSE NoCursor

\* res.status(200).json: the page of the documents s found, for the request
\* sent to `route` with a cursor of kind k.
PageAnswer(s, n, route, k) ==
    [route |-> route, cursor |-> k, failed |-> FALSE,
     ids |-> [i \in 1..Len(PageOf(s, n)) |-> PageOf(s, n)[i].id],
     hasNextPage |-> HasNextPage(s, n), limit |-> n]

\* The client fetches the next page with the cursor it holds.
FetchPage ==
    /\ more
    /\ Len(seen) < MaxSeen
    /\ \E s \in Orderings(CursorFilter(catalog, cursor, query.sort), query.sort) :
          LET n == LimitNum(query.limit) IN
            /\ seen' = seen \o [i \in 1..Len(PageOf(s, n)) |-> PageOf(s, n)[i].id]
            /\ more' = HasNextPage(s, n)
            /\ cursor' = NextCursor(s, n)
            /\ answer' = PageAnswer(s, n, "public",
                              IF cursor = NoCursor THEN "absent" ELSE "valid")
    /\ UNCHANGED <<storeVars, reqs, now, catalog, query>>

\* ------------------------------------------------------------- PageSpec
\* One client walks the listing of a fixed set of events to its end.
PageInit ==
    /\ events = [e \in EventIds |-> InitialEvent(e, MaxTotal, 0, 3)]
    /\ bookings = {}
    /\ reqs = [r \in Slots |-> Idle]
    /\ now = 0
    /\ \E m \in 1..NumListed, f \in [1..NumListed -> 1..MaxStart] :
          catalog = {[id |-> i, start |-> f[i]] : i \in 1..m}
    /\ query \in [limit : 1..MaxLimit, sort : Sorts]
    /\ cursor = NoCursor
    /\ seen = <<>>
    /\ more = TRUE
    /\ answer = NoAnswer

PageNext == FetchPage

PageSpec == PageInit /\ [][PageNext]_vars

\* ----------------------------------------- events come and go while listing
\* POST /api/events and PUT /:id/publish: a new event enters the listing.  Its
\* id is one no listed or returned event has.
InsertEvent ==
    /\ Cardinality(catalog) < NumListed
    /\ \E i \in 1..(NumListed + MaxSeen), st \in 1..MaxStart :
          /\ i \notin {ev.id : ev \in catalog} \cup {seen[k] : k \in 1..Len(seen)}
          /\ \A j \in 1..(i - 1) :
                j \in {ev.id : ev \in catalog} \cup {seen[k] : k \in 1..Len(seen)}
          /\ catalog' = catalog \cup {[id |-> i, start |-> st]}
    /\ UNCHANGED <<storeVars, reqs, now, query, cursor, seen, more, answer>>

\* DELETE /api/events/:id: an event leaves the listing.
DeleteEvent ==
    /\ \E ev \in catalog : catalog' = catalog \ {ev}
    /\ UNCHANGED <<storeVars, reqs, now, query, cursor, seen, more, answer>>

\* ------------------------------------------------------- PageChurnSpec
\* One client walks the listing while events are inserted and deleted.
PageChurnNext == FetchPage \/ InsertEvent \/ DeleteEvent

PageChurnSpec == PageInit /\ [][PageChurnNext]_vars

\* ------------------------------------- GET /api/events/my/events and cursors
\* A cursor that is no cursor of the server's: not base64 of JSON at all, the
\* JSON null, or a JSON object without a date at its position field.
MalformedCursors == {"undecodable", "null", "noPosition"}

\* Whether the route filters by the cursor: the public listing only when the
\* sort is '-dateTime.start', the organizer's listing always.
UsesCursor(route, sort) == route = "mine" \/ sort = "-dateTime.start"

\* What a malformed cursor does to the query.  JSON.parse throwing, or reading
\* a field of null, is caught and the cursor ignored.  An object without the
\* position gives new Date(undefined), an invalid date, as the bound of $lt: the
\* store's driver refuses the query or the bound matches no document.
MalformedCursorOutcomes(route, k, sort) ==
    IF k = "noPosition" /\ UsesCursor(route, sort)
      THEN {"fails", "matches nothing"}
      ELSE {"ignored"}

\* next(error): the listing fails.
FailedAnswer(n, route, k) ==
    [route |-> route, cursor |-> k, failed |-> TRUE, ids |-> <<>>,
     hasNextPage |-> FALSE, limit |-> n]

\* A listing request sent with a malformed cursor.
ListWithMalformedCursor(route, k) ==
    /\ LET n == LimitNum(query.limit) IN
         \E o \in MalformedCursorOutcomes(route, k, query.sort) :
            CASE o = "fails" -> answer' = FailedAnswer(n, route, k)
              [] o = "matches nothing" -> answer' = PageAnswer(<<>>, n, route, k)
              [] o = "ignored" ->
                    \E s \in Orderings(catalog, query.sort) :
                        answer' = PageAnswer(s, n, route, k)
    /\ UNCHANGED <<storeVars, reqs, now, catalog, query, cursor, seen, more>>

\* GET /api/events/my/events without a cursor: no validator looks at the limit,
\* which is whatever integer the caller sent.
ListMine(limit) ==
    /\ \E s \in Orderings(catalog, query.sort) :
          answer' = PageAnswer(s, LimitNum(limit), "mine", "absent")
    /\ UNCHANGED <<storeVars, reqs, now, catalog, query, cursor, seen, more>>

\* ------------------------------------------------------------- ListSpec
\* Listing requests on a fixed set of events: the public listing followed
\* page by page, requests with a malformed cursor, the organizer's listing.
Routes == {"public", "mine"}

ListNext ==
    \/ FetchPage
    \/ \E route \in Routes, k \in MalformedCursors : ListWithMalformedCursor(route, k)
    \/ \E limit \in 0..MaxLimit : ListMine(limit)

ListSpec == PageInit /\ [][ListNext]_vars

\* ================================================================ claims

C2_NoOverbooking ==
    \A e \in EventIds :
        BookedQuantity(bookings, e) <= events[e].total - events[e].reserved

\* C3: every (event, requester) pair has at most one pending or confirmed
\* booking, whatever the interleaving of the creations.
C3_OneActiveBooking ==
    \A e \in EventIds, u \in UserIds :
        Cardinality({b \in bookings : b.eventId = e /\ b.userId = u
                                        /\ b.status \in ActiveStatuses}) <= 1

\* A creation lost the race against another one of the same requester on the
\* same event: the insert was refused, and the winner's booking is stored.
C3_Witness ==
    \E r \in Slots :
        /\ reqs[r].op = "create" /\ reqs[r].pc = "done"
        /\ reqs[r].code = "DUPLICATE_FIELD"
        /\ \E b \in bookings : b.eventId = reqs[r].ev /\ b.status \in ActiveStatuses

\* C4: a successful cancellation of a booking of quantity q leaves the event's
\* available exactly q above what it was when the request arrived.
C4_CancelCreditsQuantity ==
    \A r \in Slots :
        (reqs[r].op = "cancel" /\ reqs[r].pc = "done" /\ reqs[r].code = "OK")
            => events[reqs[r].ev].available = reqs[r].avail0 + reqs[r].qty

\* C5: when the listing reports no next page, the pages fetched hold every
\* listed event exactly once, in the order asked for.
C5_PaginationComplete ==
    ~more =>
        /\ Len(seen) = Cardinality(catalog)
        /\ {seen[i] : i \in 1..Len(seen)} = {ev.id : ev \in catalog}
        /\ \A i, j \in 1..Len(seen) :
              i < j => \E a \in catalog, b \in catalog :
                          a.id = seen[i] /\ b.id = seen[j] /\ InOrder(a, b, query.sort)

\* C6: no step changes the status of a cancelled booking.
C6_CancelledIsTerminal ==
    [][\A b \in bookings :
          b.status = "cancelled" =>
              \E c \in bookings' : Id(c) = Id(b) /\ c.status = "cancelled"]_vars

\* C7: the step that completes a cancelEvent leaves the event cancelled and
\* every booking of it that was pending or confirmed cancelled with the
\* system's reason and a cancelledAt; every other booking is as it was.
C7_CascadeEffect ==
    [][\A r \in Slots :
          (reqs[r].op = "cancelEvent" /\ reqs[r].pc # "done"
              /\ reqs'[r].pc = "done" /\ reqs'[r].code = "OK")
          => /\ events'[reqs[r].ev].status = "cancelled"
             /\ Cardinality(bookings') = Cardinality(bookings)
             /\ \A b \in bookings :
                   IF b.eventId = reqs[r].ev /\ b.status \in ActiveStatuses
                     THEN [b EXCEPT !.status = "cancelled",
                                    !.cancelReason = EventCancelReason,
                                    !.cancelledAt = now] \in bookings'
                          /\ now # NoDate
                     ELSE b \in bookings']_vars

\* A cancelEvent has completed: a pending booking of the event now carries the
\* system's reason, and a booking of another event is still confirmed.
C7_Witness ==
    \E r \in Slots :
        /\ reqs[r].op = "cancelEvent" /\ reqs[r].pc = "done" /\ reqs[r].code = "OK"
        /\ events[reqs[r].ev].requiresApproval
        /\ \E b \in bookings, c \in bookings :
              /\ b.eventId = reqs[r].ev
              /\ b.status = "cancelled" /\ b.cancelReason = EventCancelReason
              /\ c.eventId # reqs[r].ev /\ c.status = "confirmed"

\* C8: once a cancelEvent has completed, the event's available equals
\* total - reserved - (the quantities of its pending and confirmed bookings).
C8_CascadeCredits ==
    \A r \in Slots :
        (reqs[r].op = "cancelEvent" /\ reqs[r].pc = "done" /\ reqs[r].code = "OK")
            => events[reqs[r].ev].available =
                   events[reqs[r].ev].total - events[reqs[r].ev].reserved
                       - BookedQuantity(bookings, reqs[r].ev)

\* C9: once a cancelEvent invoked on an already cancelled event has completed,
\* the event has no pending or confirmed booking left.
C9_RerunCancelsTheRest ==
    \A r \in Slots :
        (reqs[r].op = "cancelEvent" /\ reqs[r].pc = "done"
            /\ reqs[r].code = "EVENT_ALREADY_CANCELLED")
            => ActiveBookings(bookings, reqs[r].ev) = {}

\* C10: at every point where no request is in flight, every event has
\* 0 <= available <= total - reserved.
C10_CapacityBounds ==
    Quiescent =>
        \A e \in EventIds :
            /\ 0 <= events[e].available
            /\ events[e].available <= events[e].total - events[e].reserved

\* C11: a booking creation answered with an error has left no booking row of
\* its own in the store.
C11_FailedCreateLeavesNoRow ==
    \A r \in Slots :
        (reqs[r].op = "create" /\ reqs[r].pc = "done" /\ reqs[r].code # "OK")
            => ~Stored(bookings, reqs[r].bk)

\* C12: a creation that fails while the same requester already has a pending
\* or confirmed booking on the same event is answered DUPLICATE_BOOKING.
C12_DuplicateAnswer ==
    [][\A r \in Slots :
          (/\ reqs[r].pc # "done" /\ reqs'[r].pc = "done"
           /\ reqs'[r].op = "create" /\ reqs'[r].code # "OK"
           /\ \E b \in bookings :
                 /\ b.eventId = reqs'[r].ev /\ b.userId = reqs'[r].caller
                 /\ b.status \in ActiveStatuses /\ Id(b) # reqs'[r].bk)
          => reqs'[r].code = "DUPLICATE_BOOKING"]_vars

\* C13: a creation that has passed the event, capacity and duplicate checks,
\* by a requester with no pending or confirmed booking on the event, stores a
\* new active booking next to the requester's old ones.
C13_RebookAfterCancel ==
    [][\A r \in Slots :
          (/\ reqs[r].op = "create" /\ reqs[r].pc = "c_insert"
           /\ reqs'[r].pc # "c_insert"
           /\ ~checkDuplicateBooking(bookings, reqs[r].ev, reqs[r].caller))
          => \E b \in bookings' \ bookings :
                /\ b.eventId = reqs[r].ev /\ b.userId = reqs[r].caller
                /\ b.status \in ActiveStatuses]_vars

\* C14: a creation on a published, future event for more places than were
\* available, by a requester with no active booking on it, is answered
\* INSUFFICIENT_CAPACITY, writes no row and leaves available as it was.
C14_InsufficientCapacity ==
    \A r \in Slots :
        (/\ reqs[r].op = "create" /\ reqs[r].pc = "done"
         /\ events[reqs[r].ev].status = "published"
         /\ events[reqs[r].ev].start > now
         /\ reqs[r].qty > reqs[r].avail0
         /\ ~checkDuplicateBooking(bookings, reqs[r].ev, reqs[r].caller))
        => /\ reqs[r].code = "INSUFFICIENT_CAPACITY"
           /\ reqs[r].bk = MissingId
           /\ events[reqs[r].ev].available = reqs[r].avail0

\* C15: a traversal never returns an event that an earlier page of it has
\* already returned.
C15_NoEventTwice ==
    \A i, j \in 1..Len(seen) : i # j => seen[i] # seen[j]

\* C16: a request with a malformed cursor does not fail and is answered as the
\* same request without a cursor: with a first page of the listing.
C16_MalformedCursorIgnored ==
    answer.cursor \in MalformedCursors =>
        /\ ~answer.failed
        /\ \E s \in Orderings(catalog, query.sort) :
              /\ answer.ids = PageAnswer(s, answer.limit, answer.route, "absent").ids
              /\ answer.hasNextPage = HasNextPage(s, answer.limit)

\* C17: every listing request answered with a page has an effective limit in
\* 1..50 and a page of at most that many events.
C17_LimitClamped ==
    (answer.route # "none" /\ ~answer.failed) =>
        /\ answer.limit \in 1..LimitCap
        /\ Len(answer.ids) <= answer.limit

\* C18: a cancellation asked by the event's organizer or by an admin is never
\* refused for the 24 hour window, whoever made the booking.
C18_StaffBypassWindow ==
    \A r \in Slots :
        (/\ reqs[r].op = "cancel" /\ reqs[r].pc = "done"
         /\ reqs[r].ev \in EventIds
         /\ (reqs[r].role = "admin" \/ reqs[r].caller = events[reqs[r].ev].organizerId))
        => reqs[r].code # "CANCELLATION_DEADLINE_PASSED"

\* C19: whenever a booking row is created, its event exists, is published and
\* starts in the future at that moment.
C19_CreatedOnBookableEvent ==
    [][\A b \in bookings' :
          Id(b) \notin BookingIds =>
              /\ events[b.eventId].exists
              /\ events[b.eventId].status = "published"
              /\ events[b.eventId].start > now]_vars

\* C20: every booking row, when it is created, is confirmed if its event does
\* not require approval and pending if it does.
C20_InitialStatus ==
    [][\A b \in bookings' :
          Id(b) \notin BookingIds =>
              b.status = IF events[b.eventId].requiresApproval
                           THEN "pending" ELSE "confirmed"]_vars

\* Two creations have succeeded: one on an event that requires approval, whose
\* booking is pending, one on an event that does not, whose booking is confirmed.
C20_Witness ==
    /\ \E r \in Slots :
          reqs[r].op = "create" /\ reqs[r].pc = "done" /\ reqs[r].code = "OK"
    /\ \E b \in bookings, c \in bookings :
          /\ events[b.eventId].requiresApproval /\ b.status = "pending"
          /\ ~events[c.eventId].requiresApproval /\ c.status = "confirmed"

\* C21: a confirm asked on a booking that is not pending fails at once and
\* changes nothing in the store; the save of a confirm finds the booking
\* pending and writes the status confirmed and nothing else; and a confirm
\* answered OK leaves the booking confirmed.
C21_ConfirmOnlyFromPending ==
    [][\A r \in Slots :
          /\ (/\ reqs[r].op = "idle" /\ reqs'[r].op = "confirm"
              /\ Stored(bookings, reqs'[r].bk)
              /\ Row(bookings, reqs'[r].bk).status # "pending")
             => /\ reqs'[r].pc = "done" /\ reqs'[r].code # "OK"
                /\ storeVars' = storeVars
          /\ (reqs[r].op = "confirm" /\ reqs[r].pc = "cf_save" /\ reqs'[r].pc # "cf_save")
             => /\ Row(bookings, reqs[r].bk).status = "pending"
                /\ bookings' = SetRow(bookings, reqs[r].bk,
                       [Row(bookings, reqs[r].bk) EXCEPT !.status = "confirmed"])
          /\ (reqs'[r].op = "confirm" /\ reqs'[r].pc = "done" /\ reqs[r].pc # "done"
                /\ reqs'[r].code = "OK")
             => Row(bookings', reqs'[r].bk).status = "confirmed"]_vars

\* A confirm has been answered OK, its booking is confirmed, and the store
\* holds a waitlisted booking as well.
C21_Witness ==
    /\ \E r \in Slots :
          /\ reqs[r].op = "confirm" /\ reqs[r].pc = "done" /\ reqs[r].code = "OK"
          /\ Row(bookings, reqs[r].bk).status = "confirmed"
    /\ \E b \in bookings : b.status = "waitlisted"

\* C22: a confirm or a checkIn answered OK has left the event's available as
\* it was when the request arrived.
C22_NoCapacityEffect ==
    \A r \in Slots :
        (reqs[r].op \in {"confirm", "checkIn"} /\ reqs[r].pc = "done"
            /\ reqs[r].code = "OK")
        => events[reqs[r].ev].available = reqs[r].avail0

C24_NoActiveBookingOnDeletedEvent ==
    \A b \in bookings : b.status \in ActiveStatuses => events[b.eventId].exists

\* C25: a request to update, delete, publish or cancel an event, made by an
\* organizer who does not own it, and a request to cancel or update a booking,
\* made by a caller who is neither its requester nor the event's organizer nor
\* an admin, is answered at once with a refusal (the route's DENIED code
\* when the event exists) and changes no event and no booking.
C25_OwnershipCheckedFirst ==
    [][\A r \in Slots :
          /\ (/\ reqs[r].op = "idle"
              /\ reqs'[r].op \in {"updateEvent", "deleteEvent", "publish", "cancelEvent"}
              /\ reqs'[r].role = "organizer"
              /\ events[reqs'[r].ev].organizerId # reqs'[r].caller)
             => /\ reqs'[r].pc = "done" /\ reqs'[r].code # "OK"
                /\ storeVars' = storeVars
                /\ events[reqs'[r].ev].exists
                     => reqs'[r].code \in {"EVENT_UPDATE_DENIED", "EVENT_DELETE_DENIED",
                                           "EVENT_PUBLISH_DENIED", "EVENT_CANCEL_DENIED"}
          /\ (/\ reqs[r].op = "idle"
              /\ reqs'[r].op \in {"cancel", "updateBooking"}
              /\ Stored(bookings, reqs'[r].bk)
              /\ Row(bookings, reqs'[r].bk).userId # reqs'[r].caller
              /\ events[reqs'[r].ev].organizerId # reqs'[r].caller
              /\ reqs'[r].role # "admin")
             => /\ reqs'[r].pc = "done" /\ reqs'[r].code # "OK"
                /\ storeVars' = storeVars
                /\ events[reqs'[r].ev].exists
                     => reqs'[r].code \in {"BOOKING_CANCEL_DENIED",
                                           "BOOKING_UPDATE_DENIED"}]_vars

\* An organizer who does not own the event has asked to delete it and has
\* been refused, the event being there with a booking cancelled before.
C25_Witness ==
    \E r \in Slots :
        /\ reqs[r].op = "deleteEvent" /\ reqs[r].pc = "done"
        /\ reqs[r].caller = OtherOrganizerId
        /\ reqs[r].code = "EVENT_DELETE_DENIED"
        /\ events[reqs[r].ev].exists
        /\ \E b \in bookings : b.eventId = reqs[r].ev /\ b.status = "cancelled"

\* C26: once an event update has been answered OK and no request is still
\* running, the event has total >= reserved + (the quantities of its pending
\* and confirmed bookings) and available = total - reserved - those quantities.
C26_UpdateKeepsCapacity ==
    \A r \in Slots :
        (/\ reqs[r].op = "updateEvent" /\ reqs[r].pc = "done" /\ reqs[r].code = "OK"
         /\ \A s \in Slots : reqs[s].pc \in {"idle", "done"}
         /\ \A s \in Slots : reqs[s].pc = "done" => reqs[s].code = "OK")
        => LET ev == events[reqs[r].ev]
               booked == BookedQuantity(bookings, reqs[r].ev)
           IN /\ ev.total >= ev.reserved + booked
              /\ ev.available = ev.total - ev.reserved - booked

\* C27: when no request is running and every request on record was answered
\* OK, every event's available equals total - reserved - (the quantities of
\* its pending and confirmed bookings).
C27_NoLostCapacityUpdate ==
    (/\ \A s \in Slots : reqs[s].pc \in {"idle", "done"}
     /\ \A s \in Slots : reqs[s].pc = "done" => reqs[s].code = "OK")
    => \A e \in EventIds :
          events[e].available =
              events[e].total - events[e].reserved - BookedQuantity(bookings, e)

\* C28: when a cancelEvent has been answered OK and no request is running, the
\* cancelled event has no pending or confirmed booking.
C28_NoActiveBookingAfterCascade ==
    \A r \in Slots :
        (/\ reqs[r].op = "cancelEvent" /\ reqs[r].pc = "done" /\ reqs[r].code = "OK"
         /\ \A s \in Slots : reqs[s].pc \in {"idle", "done"})
        => ActiveBookings(bookings, reqs[r].ev) = {}

\* C29: no two cancellations of the same booking are both answered OK, and no
\* step stores as confirmed a booking that was stored as cancelled.
C29_OneCancelWins ==
    [][/\ \A r \in Slots, s \in Slots :
             (/\ r # s
              /\ reqs'[r].op = "cancel" /\ reqs'[r].pc = "done" /\ reqs'[r].code = "OK"
              /\ reqs'[s].op = "cancel" /\ reqs'[s].pc = "done" /\ reqs'[s].code = "OK")
             => reqs'[r].bk # reqs'[s].bk
       /\ \A b \in bookings :
             b.status = "cancelled" =>
                 ~\E c \in bookings' : Id(c) = Id(b) /\ c.status = "confirmed"]_vars

\* C30: the step of a booking update that changes the booking's status, taken
\* when the event's available equals total - reserved - (the quantities of its
\* pending and confirmed bookings), leaves that equation true, and leaves a
\* booking that has become cancelled with a cancelledAt.
C30_StatusUpdateAdjustsCapacity ==
    [][\A r \in Slots :
          (/\ reqs[r].op = "updateBooking" /\ reqs[r].pc = "ub_write"
           /\ reqs'[r].pc = "done" /\ reqs'[r].code = "OK"
           /\ Row(bookings', reqs[r].bk).status # Row(bookings, reqs[r].bk).status
           /\ events[reqs[r].ev].available =
                 events[reqs[r].ev].total - events[reqs[r].ev].reserved
                     - BookedQuantity(bookings, reqs[r].ev))
          => /\ events'[reqs[r].ev].available =
                   events'[reqs[r].ev].total - events'[reqs[r].ev].reserved
                       - BookedQuantity(bookings', reqs[r].ev)
             /\ Row(bookings', reqs[r].bk).status = "cancelled"
                   => Row(bookings', reqs[r].bk).cancelledAt # NoDate]_vars
====
